---- MODULE Spec2Model ----
(***************************************************************************)
(* DeckLinkAVSource (voctocore/lib/sources/decklinkavsource.py): the audio *)
(* stream mapping of a Decklink source, from the configuration section to  *)
(* the pipeline handed to build_pipeline.                                  *)
(*                                                                         *)
(* Strings are sequences of one-character strings, so that the regular     *)
(* expressions and int() of the source are computed character by character.*)
(* The video half of the pipeline and the device parameters do not touch   *)
(* the audio routing and are left out.                                     *)
(***************************************************************************)
EXTENDS Integers, Sequences, FiniteSets, TLC

VARIABLES
    section_exists,          \* config_section in Config
    config,                  \* Config[config_section]: the (key, value) pairs, in file order
    num_streams,             \* Config.getint('mix', 'audiostreams')
    has_audio,               \* constructor argument has_audio
    pc,                      \* position in __init__, then "running" or "failed"
    audiostream_map,         \* self.audiostream_map, an insertion-ordered dict
    fallback_default,        \* self.fallback_default
    required_input_channels, \* self.required_input_channels
    error,                   \* the exception that left __init__, if any
    built,                   \* the pipelines handed to build_pipeline, oldest first
    port                     \* the last build_audioport call and what it returned

vars == <<section_exists, config, num_streams, has_audio, pc, audiostream_map,
          fallback_default, required_input_channels, error, built, port>>

inputs == <<section_exists, config, num_streams, has_audio>>

----------------------------------------------------------------------------
(* Bounds of the model.                                                    *)

MaxKeys == 2        \* keys in the source's configuration section
MaxStreams == 2     \* largest mix.audiostreams
MaxRestarts == 1    \* restart() calls

----------------------------------------------------------------------------
(* Characters and numbers.                                                 *)

Digits == {"0", "1", "2", "3", "4", "5", "6", "7", "8", "9"}

DigitVal(c) ==
    CASE c = "0" -> 0 [] c = "1" -> 1 [] c = "2" -> 2 [] c = "3" -> 3
      [] c = "4" -> 4 [] c = "5" -> 5 [] c = "6" -> 6 [] c = "7" -> 7
      [] c = "8" -> 8 [] c = "9" -> 9

\* The length of the longest prefix of s made of digits: what \d+ consumes.
RECURSIVE DigitRun(_)
DigitRun(s) ==
    IF s = <<>> \/ Head(s) \notin Digits THEN 0 ELSE 1 + DigitRun(Tail(s))

\* The number a non-empty string of digits denotes.
RECURSIVE DigitsToInt(_)
DigitsToInt(s) ==
    IF s = <<>> THEN 0
    ELSE 10 * DigitsToInt(SubSeq(s, 1, Len(s) - 1)) + DigitVal(s[Len(s)])

Drop(s, n) == SubSeq(s, n + 1, Len(s))
Take(s, n) == SubSeq(s, 1, n)

\* int(s) of a str over the characters of the model: an optional sign and then
\* digits only; anything else raises ValueError.
py_int(s) ==
    LET signed == s # <<>> /\ Head(s) \in {"+", "-"}
        body == IF signed THEN Tail(s) ELSE s
        isnum == body # <<>> /\ DigitRun(body) = Len(body)
    IN  IF ~isnum THEN [ok |-> FALSE, val |-> 0]
        ELSE [ok |-> TRUE,
              val |-> IF signed /\ Head(s) = "-" THEN 0 - DigitsToInt(body)
                      ELSE DigitsToInt(body)]

----------------------------------------------------------------------------
(* _parse_audiostream_mapping                                              *)

\* re.match(r'(\d+)\+(\d+)', mapping): anchored at the start only. The two
\* groups as <<g1, g2>>, or <<>> when there is no match.
match_mapping(mapping) ==
    LET n1 == DigitRun(mapping)
        rest == Drop(mapping, n1)
        n2 == IF rest = <<>> THEN 0 ELSE DigitRun(Tail(rest))
    IN  IF n1 > 0 /\ rest # <<>> /\ Head(rest) = "+" /\ n2 > 0
        THEN <<Take(mapping, n1), Take(Tail(rest), n2)>>
        ELSE <<>>

\* (left, right) with right = <<>> for None and <<r>> otherwise; ok is FALSE
\* when int(mapping) raises ValueError.
parse_audiostream_mapping(mapping) ==
    LET m == match_mapping(mapping)
    IN  IF m # <<>>
        THEN [ok |-> TRUE, left |-> DigitsToInt(m[1]), right |-> <<DigitsToInt(m[2])>>]
        ELSE [ok |-> py_int(mapping).ok, left |-> py_int(mapping).val, right |-> <<>>]

----------------------------------------------------------------------------
(* _parse_audiostream_map                                                  *)

KeyPrefix == <<"a", "u", "d", "i", "o", "s", "t", "r", "e", "a", "m", "[">>

\* re.match(r'audiostream\[(\d+)\]', key): anchored at the start only. The
\* group as <<g>>, or <<>> when there is no match.
match_key(key) ==
    LET np == Len(KeyPrefix)
        rest == Drop(key, np)
        n == DigitRun(rest)
    IN  IF Len(key) >= np /\ Take(key, np) = KeyPrefix
           /\ n > 0 /\ Len(rest) > n /\ rest[n + 1] = "]"
        THEN <<Take(rest, n)>>
        ELSE <<>>

\* d[k] = v on an insertion-ordered dict: a key already present keeps its
\* position and takes the new value, a new key goes to the end.
dict_set(d, k, v) ==
    IF \E i \in 1..Len(d) : d[i].audiostream = k
    THEN [i \in 1..Len(d) |->
            IF d[i].audiostream = k THEN [audiostream |-> k, mapping |-> v] ELSE d[i]]
    ELSE Append(d, [audiostream |-> k, mapping |-> v])

\* The loop over Config[config_section], from entry i on.
RECURSIVE parse_keys(_, _, _)
parse_keys(entries, i, audiostream_map_) ==
    IF i > Len(entries) THEN audiostream_map_
    ELSE LET m == match_key(entries[i].key)
         IN  parse_keys(entries, i + 1,
                        IF m # <<>>
                        THEN dict_set(audiostream_map_, DigitsToInt(m[1]), entries[i].value)
                        ELSE audiostream_map_)

parse_audiostream_map(exists, entries) ==
    IF ~exists THEN <<>> ELSE parse_keys(entries, 1, <<>>)

----------------------------------------------------------------------------
(* _warn_incorrect_number_of_streams                                       *)

\* A faulty variant: it accepts the stream whose index is the number of streams.
warn_incorrect_number_of_streams_gt(map, num_streams_) ==
    LET bad == {i \in 1..Len(map) : map[i].audiostream > num_streams_}
    IN  IF bad = {} THEN 0 ELSE CHOOSE i \in bad : \A j \in bad : i <= j

\* The position in the map of the first audiostream >= num_streams_, 0 if none:
\* the loop raises RuntimeError there, with that audiostream and num_streams_.
warn_incorrect_number_of_streams(map, num_streams_) ==
    LET bad == {i \in 1..Len(map) : map[i].audiostream >= num_streams_}
    IN  IF bad = {} THEN 0 ELSE CHOOSE i \in bad : \A j \in bad : i <= j

----------------------------------------------------------------------------
(* _round_decklink_channels and _calculate_required_input_channels         *)

Max(a, b) == IF a >= b THEN a ELSE b

\* A faulty variant: it compares with >= where the source compares with >.
round_decklink_channels_ge(required) ==
    IF required >= 16 THEN [ok |-> FALSE, channels |-> required]
    ELSE IF required >= 8 THEN [ok |-> TRUE, channels |-> 16]
    ELSE IF required >= 2 THEN [ok |-> TRUE, channels |-> 8]
    ELSE [ok |-> TRUE, channels |-> 2]

\* ok is FALSE where the source raises RuntimeError.
round_decklink_channels(required) ==
    IF required > 16 THEN [ok |-> FALSE, channels |-> required]
    ELSE IF required > 8 THEN [ok |-> TRUE, channels |-> 16]
    ELSE IF required > 2 THEN [ok |-> TRUE, channels |-> 8]
    ELSE [ok |-> TRUE, channels |-> 2]

\* The loop over the map from entry i on; bad is the position of the entry
\* whose mapping int() rejects, 0 if the loop runs to its end.
RECURSIVE calculate_loop(_, _, _)
calculate_loop(map, i, required) ==
    IF i > Len(map) THEN [bad |-> 0, required |-> required]
    ELSE LET p == parse_audiostream_mapping(map[i].mapping)
             r1 == Max(required, p.left + 1)
             r2 == IF p.right # <<>> /\ p.right[1] # 0   \* "if right:"
                   THEN Max(r1, p.right[1] + 1) ELSE r1
         IN  IF ~p.ok THEN [bad |-> i, required |-> required]
             ELSE calculate_loop(map, i + 1, r2)

\* kind: "none" and the channels returned, "ValueError" and the position of the
\* rejected entry, or "Capacity" and the number requested.
calculate_required_input_channels(map) ==
    LET l == calculate_loop(map, 1, 0)
        r == round_decklink_channels(l.required)
    IN  IF l.bad # 0 THEN [kind |-> "ValueError", bad |-> l.bad, channels |-> 0]
        ELSE IF ~r.ok THEN [kind |-> "Capacity", bad |-> 0, channels |-> r.channels]
        ELSE [kind |-> "none", bad |-> 0, channels |-> r.channels]

----------------------------------------------------------------------------
(* launch_pipeline: the audio part of the pipeline description             *)

\* A faulty variant: it tests "if right:" where the source tests "if right is not None:".
audio_rule_truthy(audiostream, p) ==
    IF p.right # <<>> /\ p.right[1] # 0
    THEN [interleave |-> audiostream, tee |-> <<>>,
          sink_0 |-> <<"aout", p.left>>, sink_1 |-> <<"aout", p.right[1]>>]
    ELSE [interleave |-> audiostream, tee |-> <<p.left>>,
          sink_0 |-> <<"t", audiostream>>, sink_1 |-> <<"t", audiostream>>]

\* What one pass of the loop appends: the interleave i-<name>-<audiostream>,
\* the tee t-<name>-<audiostream> (tee = <<channel>>) if any, and what feeds
\* sink_0 and sink_1: pad src_<n> of aout-<name> or the tee.
audio_rule(audiostream, p) ==
    IF p.right # <<>>                                   \* "if right is not None:"
    THEN [interleave |-> audiostream, tee |-> <<>>,
          sink_0 |-> <<"aout", p.left>>, sink_1 |-> <<"aout", p.right[1]>>]
    ELSE [interleave |-> audiostream, tee |-> <<p.left>>,
          sink_0 |-> <<"t", audiostream>>, sink_1 |-> <<"t", audiostream>>]

audio_rules(map) ==
    [i \in 1..Len(map) |->
        audio_rule(map[i].audiostream, parse_audiostream_mapping(map[i].mapping))]

\* channels: <<n>> for "channels=n", <<>> when left out. output: the element
\* named aout-<name>, the decklinkaudiosrc itself or a deinterleave after it.
pipeline_text(has_audio_, required, fallback, map) ==
    IF has_audio_
    THEN [audiosrc |-> TRUE,
          channels |-> IF required > 2 THEN <<required>> ELSE <<>>,
          output |-> IF fallback THEN "decklinkaudiosrc" ELSE "deinterleave",
          rules |-> audio_rules(map)]
    ELSE [audiosrc |-> FALSE, channels |-> <<>>, output |-> "none", rules |-> <<>>]

\* The position of the first entry on which the loop of launch_pipeline would
\* raise ValueError, 0 if none.
launch_bad(has_audio_, map) ==
    LET bad == {i \in 1..Len(map) : ~parse_audiostream_mapping(map[i].mapping).ok}
    IN  IF ~has_audio_ \/ bad = {} THEN 0 ELSE CHOOSE i \in bad : \A j \in bad : i <= j

----------------------------------------------------------------------------
(* build_audioport                                                         *)

\* A faulty variant: without the first test, the raw output is never returned.
build_audioport_no_fallback(fallback, map, audiostream) ==
    IF \E i \in 1..Len(map) : map[i].audiostream = audiostream
    THEN <<"i", audiostream>>
    ELSE <<>>

\* <<"aout">> for "aout-<name>.", <<"i", n>> for "i-<name>-<n>.", <<>> for None.
build_audioport(fallback, map, audiostream) ==
    IF fallback /\ audiostream = 0 THEN <<"aout">>
    ELSE IF \E i \in 1..Len(map) : map[i].audiostream = audiostream
    THEN <<"i", audiostream>>
    ELSE <<>>

----------------------------------------------------------------------------
(* The configurations the model is run on.                                 *)

DigitChar == <<"0", "1", "2", "3", "4", "5", "6", "7", "8", "9">>

\* The decimal numeral of a natural number, as the configuration file spells it.
RECURSIVE Dec(_)
Dec(n) == IF n < 10 THEN <<DigitChar[n + 1]>> ELSE Dec(n \div 10) \o <<DigitChar[(n % 10) + 1]>>

\* Option names: audiostream[0], audiostream[1], audiostream[01] and
\* devicenumber; and, in the larger set, audiostream[0]x, audiostream[] and
\* xaudiostream[0] as well.
CoreKeys ==
    { KeyPrefix \o <<"0", "]">>,
      KeyPrefix \o <<"1", "]">>,
      KeyPrefix \o <<"0", "1", "]">>,
      <<"d", "e", "v", "i", "c", "e", "n", "u", "m", "b", "e", "r">> }

KeySet ==
    CoreKeys \cup { KeyPrefix \o <<"0", "]", "x">>,
                    KeyPrefix \o <<"]">>,
                    <<"x">> \o KeyPrefix \o <<"0", "]">> }

\* The channels at the edges of the tiers 2, 8 and 16.
Chans == {0, 1, 2, 7, 8, 15, 16}

PairChans == {<<0, 1>>, <<1, 0>>, <<1, 1>>, <<2, 7>>, <<8, 0>>, <<15, 2>>, <<0, 16>>}

\* Option values: 1, 16, 8+0, 2+7, 1+1 and abc; and, in the larger set, "<N>" and
\* "<L>+<R>" over the channels above, 1+, 2+3x, -1, +1 and the empty value.
CoreValues ==
    { Dec(1), Dec(16), Dec(8) \o <<"+">> \o Dec(0), Dec(2) \o <<"+">> \o Dec(7),
      Dec(1) \o <<"+">> \o Dec(1), <<"a", "b", "c">> }

ValueSet ==
    CoreValues
    \cup { Dec(n) : n \in Chans }
    \cup { Dec(c[1]) \o <<"+">> \o Dec(c[2]) : c \in PairChans }
    \cup { <<"1", "+">>, <<"2", "+", "3", "x">>, <<"-", "1">>, <<"+", "1">>, <<>> }

RECURSIVE SectionsOfLen(_)
SectionsOfLen(n) ==
    IF n = 0 THEN {<<>>}
    ELSE { Append(c, e) : c \in SectionsOfLen(n - 1), e \in [key : CoreKeys, value : CoreValues] }

DistinctKeys(c) == \A i, j \in 1..Len(c) : i # j => c[i].key # c[j].key

\* The sections of at most MaxKeys options over the core names and values (an
\* option name occurs once in a section), and the sections of one option over
\* all names and values.
Sections ==
    { c \in UNION { SectionsOfLen(n) : n \in 0..MaxKeys } : DistinctKeys(c) }
    \cup { <<e>> : e \in [key : KeySet, value : ValueSet] }

----------------------------------------------------------------------------
(* The source object: __init__, build_audioport and restart.               *)

NoError == [kind |-> "none", value |-> <<>>, index |-> 0, limit |-> 0, requested |-> 0]

NoPort == [called |-> FALSE, audiostream |-> 0, result |-> <<>>]

Init ==
    /\ section_exists \in BOOLEAN
    /\ config \in (IF section_exists THEN Sections ELSE {<<>>})
    /\ num_streams \in 1..MaxStreams
    /\ has_audio \in BOOLEAN
    /\ pc = "init"
    /\ audiostream_map = <<>>
    /\ fallback_default = FALSE
    /\ required_input_channels = 0
    /\ error = NoError
    /\ built = <<>>
    /\ port = NoPort

\* self.audiostream_map = self._parse_audiostream_map(section)
ParseAudiostreamMap ==
    /\ pc = "init"
    /\ audiostream_map' = parse_audiostream_map(section_exists, config)
    /\ pc' = "parsed"
    /\ UNCHANGED <<inputs, fallback_default, required_input_channels, error, built, port>>

\* self.fallback_default = False; if len(self.audiostream_map) == 0: ... = True
SetFallbackDefault ==
    /\ pc = "parsed"
    /\ fallback_default' = (Len(audiostream_map) = 0)
    /\ pc' = "fallback"
    /\ UNCHANGED <<inputs, audiostream_map, required_input_channels, error, built, port>>

\* self._warn_incorrect_number_of_streams()
WarnIncorrectNumberOfStreams ==
    /\ pc = "fallback"
    /\ LET bad == warn_incorrect_number_of_streams(audiostream_map, num_streams)
       IN  IF bad # 0
           THEN /\ error' = [NoError EXCEPT !.kind = "StreamIndex",
                                            !.index = audiostream_map[bad].audiostream,
                                            !.limit = num_streams]
                /\ pc' = "failed"
           ELSE /\ error' = error
                /\ pc' = "validated"
    /\ UNCHANGED <<inputs, audiostream_map, fallback_default, required_input_channels,
                   built, port>>

\* self.required_input_channels = self._calculate_required_input_channels()
CalculateRequiredInputChannels ==
    /\ pc = "validated"
    /\ LET r == calculate_required_input_channels(audiostream_map)
       IN  CASE r.kind = "ValueError" ->
                  /\ error' = [NoError EXCEPT !.kind = "ValueError",
                                              !.value = audiostream_map[r.bad].mapping]
                  /\ pc' = "failed"
                  /\ UNCHANGED required_input_channels
             [] r.kind = "Capacity" ->
                  /\ error' = [NoError EXCEPT !.kind = "Capacity", !.requested = r.channels]
                  /\ pc' = "failed"
                  /\ UNCHANGED required_input_channels
             [] OTHER ->
                  /\ required_input_channels' = r.channels
                  /\ pc' = "planned"
                  /\ UNCHANGED error
    /\ UNCHANGED <<inputs, audiostream_map, fallback_default, built, port>>

\* launch_pipeline: the text is assembled from the object's fields and handed
\* to build_pipeline, unless the loop raises before.
launch_pipeline ==
    LET bad == launch_bad(has_audio, audiostream_map)
    IN  IF bad # 0
        THEN /\ error' = [NoError EXCEPT !.kind = "ValueError",
                                         !.value = audiostream_map[bad].mapping]
             /\ pc' = "failed"
             /\ UNCHANGED built
        ELSE /\ built' = Append(built, pipeline_text(has_audio, required_input_channels,
                                                     fallback_default, audiostream_map))
             /\ pc' = "running"
             /\ UNCHANGED error

\* A faulty variant: the pipeline is launched before the checks of __init__ have run.
InitLaunchPipeline_early ==
    /\ pc = "fallback"
    /\ built = <<>>
    /\ built' = <<pipeline_text(has_audio, required_input_channels,
                                fallback_default, audiostream_map)>>
    /\ UNCHANGED <<inputs, pc, audiostream_map, fallback_default, required_input_channels,
                   error, port>>

\* self.launch_pipeline(), the last statement of __init__
InitLaunchPipeline ==
    /\ pc = "planned"
    /\ launch_pipeline
    /\ UNCHANGED <<inputs, audiostream_map, fallback_default, required_input_channels, port>>

\* A faulty variant: it relaunches the two-channel default, without the mapping.
restart_default ==
    /\ pc = "running"
    /\ Len(built) <= MaxRestarts
    /\ built' = Append(built, pipeline_text(has_audio, 2, TRUE, <<>>))
    /\ UNCHANGED <<inputs, pc, audiostream_map, fallback_default, required_input_channels,
                   error, port>>

\* restart(): the running bin is set to NULL and the pipeline launched again
restart ==
    /\ pc = "running"
    /\ Len(built) <= MaxRestarts
    /\ launch_pipeline
    /\ UNCHANGED <<inputs, audiostream_map, fallback_default, required_input_channels, port>>

\* build_audioport(audiostream), called on the constructed source
BuildAudioport ==
    /\ pc = "running"
    /\ \E audiostream \in 0..MaxStreams :
         port' = [called |-> TRUE, audiostream |-> audiostream,
                  result |-> build_audioport(fallback_default, audiostream_map, audiostream)]
    /\ UNCHANGED <<inputs, pc, audiostream_map, fallback_default, required_input_channels,
                   error, built>>

Next ==
    \/ ParseAudiostreamMap
    \/ SetFallbackDefault
    \/ WarnIncorrectNumberOfStreams
    \/ CalculateRequiredInputChannels
    \/ InitLaunchPipeline
    \/ restart
    \/ BuildAudioport

Spec == Init /\ [][Next]_vars

----------------------------------------------------------------------------
(* The vocabulary of the specification, stated without the source's        *)
(* regular expressions: a value is read as a whole.                        *)

AllDigits(s) == s # <<>> /\ \A i \in 1..Len(s) : s[i] \in Digits

\* "<N>": a single non-negative integer.
IsSingle(v) == AllDigits(v)

\* "<L>+<R>": two non-negative integers joined by '+'.
IsPair(v) ==
    \E k \in 1..Len(v) : v[k] = "+" /\ AllDigits(Take(v, k - 1)) /\ AllDigits(Drop(v, k))

WellFormed(v) == IsSingle(v) \/ IsPair(v)

PlusAt(v) == CHOOSE k \in 1..Len(v) : v[k] = "+"
PairLeft(v) == DigitsToInt(Take(v, PlusAt(v) - 1))
PairRight(v) == DigitsToInt(Drop(v, PlusAt(v)))

\* The channels a well-formed value references.
ChannelRefs(v) == IF IsPair(v) THEN {PairLeft(v), PairRight(v)} ELSE {DigitsToInt(v)}

AllWellFormed(map) == \A i \in 1..Len(map) : WellFormed(map[i].mapping)

SetMax(S) == CHOOSE x \in S : \A y \in S : y <= x

MaxReferenced(map) ==
    IF map = <<>> THEN 0
    ELSE SetMax(UNION { ChannelRefs(map[i].mapping) : i \in 1..Len(map) }) + 1

Tiers == {2, 8, 16}

SmallestTier(n) == CHOOSE t \in Tiers : t >= n /\ \A u \in Tiers : u >= n => t <= u

\* A key that is, as a whole, audiostream[<index>].
IsStreamKey(key) ==
    /\ Len(key) > Len(KeyPrefix) + 1
    /\ Take(key, Len(KeyPrefix)) = KeyPrefix
    /\ key[Len(key)] = "]"
    /\ AllDigits(SubSeq(key, Len(KeyPrefix) + 1, Len(key) - 1))

StreamKeyIndex(key) == DigitsToInt(SubSeq(key, Len(KeyPrefix) + 1, Len(key) - 1))

\* The rules of the routing plan, as the specification names them.
DirectPair(stream, left, right) ==
    [interleave |-> stream, tee |-> <<>>,
     sink_0 |-> <<"aout", left>>, sink_1 |-> <<"aout", right>>]

DuplicatedMono(stream, channel) ==
    [interleave |-> stream, tee |-> <<channel>>,
     sink_0 |-> <<"t", stream>>, sink_1 |-> <<"t", stream>>]

\* Positions in __init__.
Parsed == pc # "init"
FallbackSet == pc \notin {"init", "parsed"}
Validated == pc \notin {"init", "parsed", "fallback"}
Planned == pc \in {"planned", "running"} \/ error.kind \in {"ValueError", "Capacity"}
Ended == pc \in {"running", "failed"}

----------------------------------------------------------------------------
(* The claims.                                                             *)

\* C1: once the planner has run on a mapping whose values are all well
\* formed, it has returned the smallest tier of {2, 8, 16} that is >= the
\* largest referenced channel plus one (0 for the empty mapping) when that
\* is at most 16, and has failed with the capacity error when it is more.
C1_SmallestTier ==
    (Planned /\ AllWellFormed(audiostream_map)) =>
        IF MaxReferenced(audiostream_map) <= 16
        THEN /\ error.kind = "none"
             /\ required_input_channels = SmallestTier(MaxReferenced(audiostream_map))
        ELSE /\ error.kind = "Capacity"
             /\ pc = "failed"

\* Two well-formed entries whose largest channel is the left of a pair with
\* right = 0: nine channels are needed and the tier is 16.
C1_Witness ==
    /\ pc = "planned"
    /\ Len(audiostream_map) = 2
    /\ AllWellFormed(audiostream_map)
    /\ MaxReferenced(audiostream_map) = 9
    /\ required_input_channels = 16

\* C2: once bounds validation has run, it has failed with the stream index
\* error if and only if some index of the mapping is >= mix.audiostreams;
\* the error carries such an index and the limit; the empty mapping passes.
C2_StreamIndexError ==
    Validated =>
        /\ (error.kind = "StreamIndex") <=>
              (\E i \in 1..Len(audiostream_map) : audiostream_map[i].audiostream >= num_streams)
        /\ error.kind = "StreamIndex" =>
              /\ pc = "failed"
              /\ error.limit = num_streams
              /\ error.index >= num_streams
              /\ \E i \in 1..Len(audiostream_map) : audiostream_map[i].audiostream = error.index

\* A mapping of two streams of which only the second is out of range.
C2_Witness ==
    /\ error.kind = "StreamIndex"
    /\ Len(audiostream_map) = 2
    /\ audiostream_map[1].audiostream < num_streams
    /\ error.index = audiostream_map[2].audiostream

\* C3: whenever construction has ended on a mapping that holds a value that
\* is neither "<N>" nor "<L>+<R>" as a whole, it has failed with the
\* malformed-mapping error on such a value, whatever else is wrong with the
\* configuration.
C3_MalformedReported ==
    (Ended /\ ~AllWellFormed(audiostream_map)) =>
        /\ pc = "failed"
        /\ error.kind = "ValueError"
        /\ ~WellFormed(error.value)
        /\ \E i \in 1..Len(audiostream_map) : audiostream_map[i].mapping = error.value

\* C4: in every state in which one of the three errors has been raised, no
\* pipeline has been handed to build_pipeline, construction has failed, and
\* nothing is run again: the error is raised before launch_pipeline.
C4_ErrorBeforeLaunch ==
    error.kind # "none" => (pc = "failed" /\ built = <<>> /\ ~ENABLED Next)

\* The last error __init__ can raise before it launches the pipeline.
C4_Witness ==
    /\ error.kind = "Capacity"
    /\ Len(audiostream_map) = 2
    /\ pc = "failed"

\* C5: fallback_default is true exactly when the parsed mapping is empty;
\* then the tier is 2, no pipeline holds an interleave, a tee or a
\* deinterleave, and build_audioport(0) is the raw output aout-<name>; with
\* a non-empty mapping the raw output is never returned as an audio port.
C5_FallbackMode ==
    /\ FallbackSet => (fallback_default <=> audiostream_map = <<>>)
    /\ (audiostream_map = <<>> /\ pc \in {"planned", "running"}) =>
          required_input_channels = 2
    /\ (audiostream_map = <<>> /\ FallbackSet) =>
          /\ error.kind = "none"
          /\ \A i \in 1..Len(built) :
                built[i].rules = <<>> /\ built[i].output # "deinterleave"
    /\ (audiostream_map = <<>> /\ port.called /\ port.audiostream = 0) =>
          port.result = <<"aout">>
    /\ (audiostream_map # <<>> /\ port.called) => port.result # <<"aout">>

\* A section without audiostream keys: the source runs in fallback mode and
\* stream 0 has been asked for.
C5_Witness ==
    /\ section_exists /\ config # <<>> /\ has_audio
    /\ fallback_default
    /\ Len(built) >= 1
    /\ port.called /\ port.audiostream = 0 /\ port.result = <<"aout">>

\* The rule the specification gives for entry i of the mapping, when its
\* value is well formed.
RuleAsSpecified(rule, entry) ==
    /\ rule.interleave = entry.audiostream
    /\ IsPair(entry.mapping) =>
          rule = DirectPair(entry.audiostream, PairLeft(entry.mapping), PairRight(entry.mapping))
    /\ IsSingle(entry.mapping) =>
          rule = DuplicatedMono(entry.audiostream, DigitsToInt(entry.mapping))

PlanAsSpecified(plan) ==
    /\ Len(plan.rules) = Len(audiostream_map)
    /\ \A i \in 1..Len(audiostream_map) : RuleAsSpecified(plan.rules[i], audiostream_map[i])

\* C6 as claimed: for a non-empty validated mapping every pipeline launched
\* holds exactly one rule per entry, in the mapping's order, a DirectPair for
\* "<L>+<R>" (right = 0 included) and a DuplicatedMono for "<N>".
C6_OneRulePerEntry ==
    audiostream_map # <<>> => \A n \in 1..Len(built) : PlanAsSpecified(built[n])

\* C6 as amended: the same, for a source constructed with has_audio true.
C6_OneRulePerEntryWithAudio ==
    (has_audio /\ audiostream_map # <<>>) => \A n \in 1..Len(built) : PlanAsSpecified(built[n])

\* Two entries, a pair with right = 0 and a single channel, both launched.
C6_Witness ==
    /\ has_audio
    /\ Len(built) >= 1
    /\ Len(audiostream_map) = 2
    /\ \E i, j \in 1..2 :
          /\ IsPair(audiostream_map[i].mapping) /\ PairRight(audiostream_map[i].mapping) = 0
          /\ IsSingle(audiostream_map[j].mapping)

\* C7: every launch after construction hands build_pipeline the pipeline of
\* the original construction, and leaves the mapping, fallback_default and
\* required_input_channels as they were.
C7_RestartSamePlan ==
    [][(pc = "running" /\ built' # built) =>
          /\ pc' = "running"
          /\ built' = Append(built, built[1])
          /\ audiostream_map' = audiostream_map
          /\ fallback_default' = fallback_default
          /\ required_input_channels' = required_input_channels]_vars

\* A source with two rules and more than two channels has been restarted.
C7_Witness ==
    /\ Len(built) >= 2
    /\ Len(built[Len(built)].rules) = 2
    /\ built[Len(built)].channels # <<>>

\* The raw channels a rule reads.
RuleChannels(rule) ==
    IF rule.tee = <<>> THEN {rule.sink_0[2], rule.sink_1[2]} ELSE {rule.tee[1]}

\* C8: in a constructed source every raw channel a rule reads, and channels
\* 0 and 1 in fallback mode, is in 0 .. required_input_channels - 1.
C8_ChannelsInRange ==
    pc = "running" =>
        /\ \A n \in 1..Len(built) : \A i \in 1..Len(built[n].rules) :
              \A c \in RuleChannels(built[n].rules[i]) :
                  c >= 0 /\ c < required_input_channels
        /\ fallback_default => required_input_channels > 1

\* C9: the parsed mapping holds at most one entry per index; every entry
\* comes from a key that is audiostream[<index>] and holds the value of the
\* last such key; every such key has its entry; a missing section gives the
\* empty mapping.
C9_ParsedMap ==
    Parsed =>
        /\ \A i, j \in 1..Len(audiostream_map) :
              i # j => audiostream_map[i].audiostream # audiostream_map[j].audiostream
        /\ ~section_exists => audiostream_map = <<>>
        /\ \A i \in 1..Len(audiostream_map) :
              LET from == {k \in 1..Len(config) :
                              /\ IsStreamKey(config[k].key)
                              /\ StreamKeyIndex(config[k].key) = audiostream_map[i].audiostream}
              IN  from # {} /\ audiostream_map[i].mapping = config[SetMax(from)].value
        /\ \A k \in 1..Len(config) :
              IsStreamKey(config[k].key) =>
                 \E i \in 1..Len(audiostream_map) :
                    audiostream_map[i].audiostream = StreamKeyIndex(config[k].key)

\* C10: every rule without a duplication point reads two distinct channels.
C10_DirectPairDistinct ==
    \A n \in 1..Len(built) : \A i \in 1..Len(built[n].rules) :
        built[n].rules[i].tee = <<>> =>
            built[n].rules[i].sink_0[2] # built[n].rules[i].sink_1[2]

====
